---- MODULE Spec2Model ----
\* Per-output render manager of wayfire (src/src/output/render-manager.cpp):
\* damage accumulation, effect hooks, the post-effect chain, frame scheduling
\* and paint(), modelled as a state machine on the single event-loop thread.
EXTENDS Integers, Sequences, FiniteSets, TLC

\* ------------------------------------------------------------------ bounds
NumHooks == 2      \* distinct hook callables a plugin may register
MaxEffects == 2    \* longest effect list of one phase
MaxPost == 2       \* longest post-effect chain
MaxCount == 2      \* cap of the constant_redraw / output_inhibit counters
OutW == 2          \* output width in pixels (transformed resolution)
OutH == 1          \* output height in pixels
VWidth == 2        \* core->vwidth: workspace grid columns
VHeight == 1       \* core->vheight: workspace grid rows
MaxViews == 3      \* views on a workspace

NOID == -1         \* (uint)-1: the id of a framebuffer that was reset/released
OpaqueAlpha == 999 \* alpha >= 0.999f, in thousandths

Hooks == 1..NumHooks
Phases == {"pre", "overlay", "post"}
Workspaces == (0..(VWidth - 1)) \X (0..(VHeight - 1))
NULL == <<>>

\* ------------------------------------------------------- region algebra
\* A pixman region is the set of the pixels it covers.
Rect(x, y, w, h) == {<<px, py>> : px \in x..(x + w - 1), py \in y..(y + h - 1)}
OutputRect == Rect(0, 0, OutW, OutH)
Translate(R, dx, dy) == {<<p[1] + dx, p[2] + dy>> : p \in R}

\* ------------------------------------------------------------------ state
VARIABLES
    constant_redraw,    \* render_manager::constant_redraw
    output_inhibit,     \* render_manager::output_inhibit
    idle_redraw_source, \* non-NULL (TRUE) while the manager holds a redraw idle source
    idle_damage_source, \* non-NULL (TRUE) while the manager holds a damage idle source
    renderer,           \* a custom renderer is installed
    effects,            \* effects[phase]: sequence of hooks
    post_effects,       \* sequence of wf_post_effect: [id, hook, to_remove, buffer]
    default_buffer,     \* [fb, tex]
    output_streams,     \* [Workspaces -> [running, buffer]]
    current_ws_stream,  \* a workspace, or NULL
    frame_damage,       \* render_manager::frame_damage
    od_frame_damage,    \* wf_output_damage::frame_damage
    dm_damage,          \* damage tracked by the display's damage manager
    frame_pending,      \* wlr_output_schedule_frame was requested / a page flip is due
    idle_queue,         \* idle callbacks queued on the event loop, oldest first
    current_ws,         \* workspace manager's current workspace
    destroyed,          \* output->destroyed
    views,              \* surfaces of the current workspace, front first
    gl_bound,           \* between OpenGL::render_begin and render_end
    gl_log,             \* framebuffer operations and signals of the last step
    pc,                 \* position of the event-loop thread
    active_effects,     \* run_effects' snapshot
    idx,                \* next position in active_effects / in the chain walk
    walk_end,           \* end iterator of the chain walk, taken when the loop starts
    last_buffer,        \* paint's last_buffer: the entry whose buffer was last written, 0 = &default_buffer
    trace,              \* stages of the paint in progress, in order
    last_op             \* the public operation the last step called, if any

mvars == <<constant_redraw, output_inhibit, idle_redraw_source, idle_damage_source,
           renderer, effects, post_effects, default_buffer, output_streams,
           current_ws_stream, frame_damage, od_frame_damage, dm_damage,
           frame_pending, idle_queue, current_ws, destroyed, views, gl_bound,
           gl_log>>
pvars == <<pc, active_effects, idx, walk_end, last_buffer, trace>>
vars == <<mvars, pvars, last_op>>

\* The manager and its environment as one record, so that a handler is the
\* composition of the calls it makes.
St ==
    [constant_redraw |-> constant_redraw, output_inhibit |-> output_inhibit,
     idle_redraw_source |-> idle_redraw_source,
     idle_damage_source |-> idle_damage_source,
     renderer |-> renderer, effects |-> effects, post_effects |-> post_effects,
     default_buffer |-> default_buffer, output_streams |-> output_streams,
     current_ws_stream |-> current_ws_stream, frame_damage |-> frame_damage,
     od_frame_damage |-> od_frame_damage, dm_damage |-> dm_damage,
     frame_pending |-> frame_pending, idle_queue |-> idle_queue,
     current_ws |-> current_ws, destroyed |-> destroyed, views |-> views,
     gl_bound |-> gl_bound, gl_log |-> <<>>]

\* the step ends in s
Commit(s) ==
    /\ constant_redraw' = s.constant_redraw
    /\ output_inhibit' = s.output_inhibit
    /\ idle_redraw_source' = s.idle_redraw_source
    /\ idle_damage_source' = s.idle_damage_source
    /\ renderer' = s.renderer
    /\ effects' = s.effects
    /\ post_effects' = s.post_effects
    /\ default_buffer' = s.default_buffer
    /\ output_streams' = s.output_streams
    /\ current_ws_stream' = s.current_ws_stream
    /\ frame_damage' = s.frame_damage
    /\ od_frame_damage' = s.od_frame_damage
    /\ dm_damage' = s.dm_damage
    /\ frame_pending' = s.frame_pending
    /\ idle_queue' = s.idle_queue
    /\ current_ws' = s.current_ws
    /\ destroyed' = s.destroyed
    /\ views' = s.views
    /\ gl_bound' = s.gl_bound
    /\ gl_log' = s.gl_log

\* the variables hold the fields of s
Holds(s) ==
    /\ constant_redraw = s.constant_redraw
    /\ output_inhibit = s.output_inhibit
    /\ idle_redraw_source = s.idle_redraw_source
    /\ idle_damage_source = s.idle_damage_source
    /\ renderer = s.renderer
    /\ effects = s.effects
    /\ post_effects = s.post_effects
    /\ default_buffer = s.default_buffer
    /\ output_streams = s.output_streams
    /\ current_ws_stream = s.current_ws_stream
    /\ frame_damage = s.frame_damage
    /\ od_frame_damage = s.od_frame_damage
    /\ dm_damage = s.dm_damage
    /\ frame_pending = s.frame_pending
    /\ idle_queue = s.idle_queue
    /\ current_ws = s.current_ws
    /\ destroyed = s.destroyed
    /\ views = s.views
    /\ gl_bound = s.gl_bound
    /\ gl_log = s.gl_log

\* ------------------------------------------------ framebuffer resource
ZeroBuffer == [fb |-> 0, tex |-> 0]
IsZero(buf) == buf.fb = 0 /\ buf.tex = 0

UsedNames(s) ==
    {s.default_buffer.fb}
        \cup {s.post_effects[i].buffer.fb : i \in 1..Len(s.post_effects)}
        \cup {s.output_streams[w].buffer.fb : w \in Workspaces}

\* glGenFramebuffers / glGenTextures: a name not in use
FreshName(s) == CHOOSE n \in 1..(MaxPost + 2 + Cardinality(Workspaces)) : n \notin UsedNames(s)

\* wf_framebuffer_base::allocate: ids are generated only for a reset buffer;
\* a buffer whose ids are set (the zero ids included) is only resized.
fb_allocate(buf, fresh) ==
    IF buf.fb = NOID THEN [fb |-> fresh, tex |-> fresh] ELSE buf

\* wf_framebuffer_base::reset: drop the ids without freeing
fb_reset(buf) == [fb |-> NOID, tex |-> NOID]

\* wf_framebuffer_base::release: free, then reset
fb_release(buf) == fb_reset(buf)

\* gl_log entries: a buffer operation (its ids before the operation), a
\* signal, or a draw (the surface's position in views, 0 for a clear, and the
\* region drawn)
LogGL(s, what, buf) ==
    [s EXCEPT !.gl_log = Append(@, [op |-> what, fb |-> buf.fb, tex |-> buf.tex,
                                    bound |-> s.gl_bound,
                                    surface |-> 0, damage |-> {}])]
LogSignal(s, name) ==
    [s EXCEPT !.gl_log = Append(@, [op |-> name, fb |-> 0, tex |-> 0,
                                    bound |-> s.gl_bound,
                                    surface |-> 0, damage |-> {}])]
LogDraw(s, what, surface, region) ==
    [s EXCEPT !.gl_log = Append(@, [op |-> what, fb |-> 0, tex |-> 0,
                                    bound |-> s.gl_bound,
                                    surface |-> surface, damage |-> region])]

render_begin(s) == [s EXCEPT !.gl_bound = TRUE]
render_end(s) == [s EXCEPT !.gl_bound = FALSE]

\* ------------------------------------------------- damage accumulator
\* wlr_output_schedule_frame
schedule_repaint(s) == [s EXCEPT !.frame_pending = TRUE]

\* wf_output_damage::add(box) and add(region): R is the region covered
od_add(s, R) ==
    schedule_repaint([s EXCEPT !.od_frame_damage = @ \cup R,
                               !.dm_damage = @ \cup (R \cap OutputRect)])

\* wf_output_damage::add(): the whole output
od_add_full(s) == od_add(s, OutputRect)

\* render_manager::damage(const wlr_box&)
damage_box(s, R) == IF ~s.destroyed THEN od_add(s, R) ELSE s

\* render_manager::damage(pixman_region32_t*): a region pointer is
\* [ptr |-> non-NULL, r |-> the region]
NullRegion == [ptr |-> FALSE, r |-> {}]
Region(R) == [ptr |-> TRUE, r |-> R]
damage(s, region) ==
    IF s.destroyed THEN s
    ELSE IF region.ptr THEN od_add(s, region.r) ELSE od_add_full(s)

\* wf_output_damage::make_current. The display's answer is an input: ok (the
\* context could be made current), ext (the output itself needs a swap) and
\* aged (the back buffer is too old for damage tracking: whole output).
\* The result lands in the manager's frame_damage (paint passes &frame_damage).
wlr_make_current_damage(s, aged) ==
    IF aged THEN s.frame_damage \cup OutputRect ELSE s.dm_damage
wlr_needs_swap(out, ext) == ext \/ out # {}

\* make_current without the subtraction of the output rectangle
make_current_keeping(s, ok, aged) ==
    IF ~ok THEN s
    ELSE [s EXCEPT !.frame_damage =
              wlr_make_current_damage(s, aged) \cup (s.od_frame_damage \ OutputRect)]

make_current(s, ok, aged) ==
    IF ~ok THEN s
    ELSE LET kept == s.od_frame_damage \ OutputRect
         IN [s EXCEPT !.od_frame_damage = kept,
                      !.frame_damage = wlr_make_current_damage(s, aged) \cup kept]

\* wf_output_damage::swap_buffers: the swap commits a page flip, after which
\* the display reports the next frame
swap_buffers(s) ==
    [s EXCEPT !.dm_damage = {}, !.od_frame_damage = {}, !.frame_pending = TRUE]

\* ------------------------------------------------------ frame scheduler
\* render_manager::schedule_redraw
schedule_redraw_unguarded(s) ==
    [s EXCEPT !.idle_redraw_source = TRUE, !.idle_queue = Append(@, "redraw")]
schedule_redraw(s) ==
    IF s.idle_redraw_source = FALSE
    THEN [s EXCEPT !.idle_redraw_source = TRUE, !.idle_queue = Append(@, "redraw")]
    ELSE s

\* redraw_idle_cb
redraw_idle_cb(s) == [schedule_repaint(s) EXCEPT !.idle_redraw_source = FALSE]

\* damage_idle_cb
damage_idle_cb(s) == [damage(s, NullRegion) EXCEPT !.idle_damage_source = FALSE]

\* render_manager::auto_redraw
auto_redraw_unclamped(s, redraw) ==
    LET c == s.constant_redraw + (IF redraw THEN 1 ELSE -1)
    IN IF c > 1 THEN [s EXCEPT !.constant_redraw = c]
       ELSE schedule_redraw([s EXCEPT !.constant_redraw = c])
auto_redraw(s, redraw) ==
    LET c == s.constant_redraw + (IF redraw THEN 1 ELSE -1)
    IN IF c > 1 THEN [s EXCEPT !.constant_redraw = c]
       ELSE IF c < 0 THEN [s EXCEPT !.constant_redraw = 0]
       ELSE schedule_redraw([s EXCEPT !.constant_redraw = c])

\* render_manager::add_inhibit
add_inhibit(s, add) ==
    LET c == s.output_inhibit + (IF add THEN 1 ELSE -1)
        s1 == [s EXCEPT !.output_inhibit = c]
    IN IF c = 0 THEN LogSignal(damage(s1, NullRegion), "start-rendering") ELSE s1

\* render_manager::reset_renderer
reset_renderer(s) ==
    LET s1 == [s EXCEPT !.renderer = FALSE]
    IN IF ~s1.idle_damage_source
       THEN [s1 EXCEPT !.idle_damage_source = TRUE, !.idle_queue = Append(@, "damage")]
       ELSE s1

\* render_manager::set_renderer
set_renderer(s) == [s EXCEPT !.renderer = TRUE]

\* ------------------------------------------------- effect hook registry
\* render_manager::add_effect
add_effect(s, hook, type) == [s EXCEPT !.effects[type] = Append(@, hook)]

\* std::remove + erase: every occurrence goes, the rest keeps its order
RECURSIVE Without(_, _)
Without(seq, x) ==
    IF seq = <<>> THEN <<>>
    ELSE IF Head(seq) = x THEN Without(Tail(seq), x)
    ELSE <<Head(seq)>> \o Without(Tail(seq), x)

\* render_manager::rem_effect
rem_effect(s, hook, type) == [s EXCEPT !.effects[type] = Without(@, hook)]

\* --------------------------------------------------- post-effect chain
\* new wf_post_effect: an address no live entry has
FreshEntry(s) ==
    CHOOSE n \in 1..(MaxPost + 1) :
        \A i \in 1..Len(s.post_effects) : s.post_effects[i].id # n

SetLastBuffer(s, buf) ==
    IF s.post_effects # <<>>
    THEN [s EXCEPT !.post_effects[Len(s.post_effects)].buffer = buf]
    ELSE [s EXCEPT !.default_buffer = buf]
LastBuffer(s) ==
    IF s.post_effects # <<>>
    THEN s.post_effects[Len(s.post_effects)].buffer
    ELSE s.default_buffer

\* render_manager::add_post
add_post(s, hook) ==
    LET dropped == fb_reset(LastBuffer(s))
        s1 == LogGL(s, "allocate", dropped)
        s2 == SetLastBuffer(s1, fb_allocate(dropped, FreshName(s1)))
        s3 == damage(s2, NullRegion)
        s4 == LogGL(s3, "allocate", ZeroBuffer)
        new_hook == [id |-> FreshEntry(s4), hook |-> hook, to_remove |-> FALSE,
                     buffer |-> fb_allocate(ZeroBuffer, FreshName(s4))]
    IN [s4 EXCEPT !.post_effects = Append(@, new_hook)]

\* render_manager::_rem_post: post is the entry's address
_rem_post(s, post) ==
    LET gone == SelectSeq(s.post_effects, LAMBDA e : e.id = post)
        s1 == IF gone # <<>> THEN LogGL(s, "release", gone[1].buffer) ELSE s
        s2 == [s1 EXCEPT !.post_effects = SelectSeq(@, LAMBDA e : e.id # post)]
        s3 == IF LastBuffer(s2).fb # 0
              THEN SetLastBuffer(LogGL(s2, "release", LastBuffer(s2)), ZeroBuffer)
              ELSE s2
    IN damage(s3, NullRegion)

RECURSIVE RemAll(_, _)
RemAll(s, posts) ==
    IF posts = <<>> THEN s ELSE RemAll(_rem_post(s, Head(posts)), Tail(posts))

\* render_manager::cleanup_post_hooks
cleanup_post_hooks(s) ==
    LET marked == SelectSeq(s.post_effects, LAMBDA e : e.to_remove)
        to_remove == [i \in 1..Len(marked) |-> marked[i].id]
    IN RemAll(s, to_remove)

\* rem_post erasing the matching entries at once instead of marking them
rem_post_eager(s, hook) ==
    LET hit == SelectSeq(s.post_effects, LAMBDA e : e.hook = hook)
    IN damage(RemAll(s, [i \in 1..Len(hit) |-> hit[i].id]), NullRegion)

\* render_manager::rem_post
rem_post(s, hook) ==
    LET s1 == [s EXCEPT !.post_effects =
                   [i \in 1..Len(@) |->
                       IF @[i].hook = hook THEN [@[i] EXCEPT !.to_remove = TRUE]
                       ELSE @[i]]]
    IN damage(s1, NullRegion)

\* ----------------------------------------------------- workspace streams
\* get_ws_damage without the translation into workspace-local coordinates
get_ws_damage_untranslated(s, ws) ==
    s.frame_damage \cap Rect((ws[1] - s.current_ws[1]) * OutW,
                             (ws[2] - s.current_ws[2]) * OutH, OutW, OutH)

\* render_manager::get_ws_damage
get_ws_damage(s, ws) ==
    LET vx == ws[1]
        vy == ws[2]
        cx == s.current_ws[1]
        cy == s.current_ws[2]
    IN Translate(s.frame_damage \cap Rect((vx - cx) * OutW, (vy - cy) * OutH, OutW, OutH),
                 (cx - vx) * OutW, (cy - vy) * OutH)

\* A view of the scene, with its one surface: kind "snapshot" for a view that
\* has a transformer or is unmapped but kept alive, else "surface"; mapped is
\* the surface's is_mapped(); box its output geometry, workspace-local, at
\* scale 1; alpha in thousandths; opaque_region what subtract_opaque removes.
\* A record of to_render is [surface |-> position in views, damage].
\* acc is [ws_damage, to_render].
schedule_render_snapshotted_view(acc, view, i) ==
    LET ds == view.box \cap acc.ws_damage
    IN IF ds # {}
       THEN [acc EXCEPT !.to_render = Append(@, [surface |-> i, damage |-> ds])]
       ELSE acc

\* schedule_render_surface without the subtraction of opaque regions
\* wayfire_surface_t::subtract_opaque: the region without the surface's
\* opaque region (in workspace-local coordinates); the opaque region of a
\* surface lies within the surface
subtract_opaque(region, surface) == region \ surface.opaque_region

\* schedule_render_surface subtracting the opaque region whatever the alpha
schedule_render_surface_any_alpha(acc, surface, i) ==
    IF ~surface.mapped \/ acc.ws_damage = {} THEN acc
    ELSE LET ds == surface.box \cap acc.ws_damage
         IN IF ds # {}
            THEN [ws_damage |-> subtract_opaque(acc.ws_damage, surface),
                  to_render |-> Append(acc.to_render,
                                       [surface |-> i, damage |-> ds])]
            ELSE acc

schedule_render_surface_unculled(acc, surface, i) ==
    IF ~surface.mapped \/ acc.ws_damage = {} THEN acc
    ELSE LET ds == surface.box \cap acc.ws_damage
         IN IF ds # {}
            THEN [acc EXCEPT !.to_render = Append(@, [surface |-> i, damage |-> ds])]
            ELSE acc

schedule_render_surface(acc, surface, i) ==
    IF ~surface.mapped THEN acc
    ELSE IF acc.ws_damage = {} THEN acc
    ELSE LET ds == surface.box \cap acc.ws_damage
         IN IF ds # {}
            THEN [ws_damage |-> IF surface.alpha >= OpaqueAlpha
                                THEN subtract_opaque(acc.ws_damage, surface)
                                ELSE acc.ws_damage,
                  to_render |-> Append(acc.to_render,
                                       [surface |-> i, damage |-> ds])]
            ELSE acc

\* the loop over views, front first, while damage remains
RECURSIVE collect_views(_, _, _)
collect_views(vs, i, acc) ==
    IF i > Len(vs) \/ acc.ws_damage = {} THEN acc
    ELSE collect_views(vs, i + 1,
             IF vs[i].kind = "snapshot"
             THEN schedule_render_snapshotted_view(acc, vs[i], i)
             ELSE schedule_render_surface(acc, vs[i], i))

\* the draw loop walking to_render from its front
RECURSIVE render_records_forward(_, _, _)
render_records_forward(s, to_render, k) ==
    IF k < 1 THEN s
    ELSE LET ds == to_render[Len(to_render) + 1 - k]
         IN render_records_forward(LogDraw(s, "render_fb", ds.surface, ds.damage),
                                   to_render, k - 1)

\* the draw loop: rev_it from to_render.rbegin() to rend(); k is the position
\* of the next record to draw
RECURSIVE render_records(_, _, _)
render_records(s, to_render, k) ==
    IF k < 1 THEN s
    ELSE render_records(LogDraw(s, "render_fb", to_render[k].surface,
                                to_render[k].damage),
                        to_render, k - 1)

\* render_manager::workspace_stream_update: nothing to do on empty workspace
\* damage; else the stream buffer is brought to the output size, the surfaces
\* are collected front to back, what is left of the damage is cleared to
\* black and the records are drawn
workspace_stream_update(s, ws) ==
    IF get_ws_damage(s, ws) = {} THEN s
    ELSE LET s1 == render_begin(s)
             buf == s1.output_streams[ws].buffer
             s2 == LogGL(s1, "allocate", buf)
             s3 == [s2 EXCEPT !.output_streams[ws].buffer = fb_allocate(buf, FreshName(s2))]
             s4 == LogSignal(s3, "workspace-stream-pre")
             acc == collect_views(s4.views, 1,
                        [ws_damage |-> get_ws_damage(s, ws), to_render |-> <<>>])
             s5 == render_end(LogDraw(render_begin(s4), "clear", 0, acc.ws_damage))
             s6 == render_records(s5, acc.to_render, Len(acc.to_render))
         IN LogSignal(s6, "workspace-stream-post")

\* render_manager::workspace_stream_start
workspace_stream_start(s, ws) ==
    LET vx == ws[1]
        vy == ws[2]
        cx == s.current_ws[1]
        cy == s.current_ws[2]
        s1 == [s EXCEPT !.output_streams[ws].running = TRUE,
                        !.frame_damage = @ \cup Rect((vx - cx) * OutW, (vy - cy) * OutH,
                                                     OutW, OutH)]
    IN workspace_stream_update(s1, ws)

\* workspace_stream_stop leaving the stream running
workspace_stream_stop_not(s, ws) == s

\* render_manager::workspace_stream_stop
workspace_stream_stop(s, ws) == [s EXCEPT !.output_streams[ws].running = FALSE]

\* ------------------------------------------------------------------ paint
\* A stage of paint as it is recorded in trace: the hook that ran (0: none)
\* and one more number (cleanup: entries removed; make_current: needs_swap in
\* hook, constant_redraw in arg).
EvA(stage, h, a) == [stage |-> stage, hook |-> h, arg |-> a]
Ev(stage, h) == EvA(stage, h, 0)
Removed(s, s2) == Len(s.post_effects) - Len(s2.post_effects)

\* run_effects walking the container itself instead of the copy
run_effects_rest_live(container, active, i) ==
    SubSeq(container, i, Len(container))

\* run_effects walking the copy from its back
run_effects_rest_reversed(container, active, i) ==
    LET n == Len(active)
    IN IF i > n THEN <<>> ELSE [k \in 1..(n - i + 1) |-> active[n - i + 2 - k]]

\* render_manager::run_effects: the hooks still to invoke once i - 1 of them
\* ran; the loop walks the copy taken before the first hook ran
run_effects_rest(container, active, i) == SubSeq(active, i, Len(active))

\* paint, up to the pre effects: cleanup_post_hooks, clear frame damage
paint_begin(s) == [cleanup_post_hooks(s) EXCEPT !.frame_damage = {}]

\* paint without the early post_paint of a frame that has nothing to draw
paint_branch_always_draw(s, ok, needs_swap) ==
    IF ~ok THEN "abort" ELSE "draw"

\* paint without the return on a failed make_current
paint_branch_unchecked(s, ok, needs_swap) ==
    IF ~needs_swap /\ s.constant_redraw = 0 THEN "post_only" ELSE "draw"

\* paint, after make_current: which way the frame goes
paint_branch(s, ok, needs_swap) ==
    IF ~ok THEN "abort"
    ELSE IF ~needs_swap /\ s.constant_redraw = 0 THEN "post_only"
    ELSE "draw"

\* paint, the scene: bind, allocate default_buffer, then the custom renderer
\* or the current workspace's stream. [s, ev]: the state and the stages run
\* (a stream_start is recorded with 1 when it stopped another stream).
paint_scene(s) ==
    LET s1 == render_begin(s)
        s2 == LogGL(s1, "allocate", s1.default_buffer)
        s3 == render_end([s2 EXCEPT !.default_buffer =
                              fb_allocate(@, FreshName(s2))])
    IN IF s3.renderer THEN [s |-> s3, ev |-> <<Ev("renderer", 0)>>]
       ELSE LET s4 == [s3 EXCEPT !.frame_damage = @ \cap OutputRect]
                target_stream == s4.current_ws
            IN IF s4.frame_damage = {} THEN [s |-> s4, ev |-> <<>>]
               ELSE IF s4.current_ws_stream # target_stream
               THEN LET s5 == IF s4.current_ws_stream # NULL
                              THEN workspace_stream_stop(s4, s4.current_ws_stream)
                              ELSE s4
                        s6 == [s5 EXCEPT !.current_ws_stream = target_stream]
                    IN [s |-> workspace_stream_start(s6, target_stream),
                        ev |-> <<EvA("stream_start", 0,
                                     IF s4.current_ws_stream # NULL THEN 1 ELSE 0)>>]
               ELSE [s |-> workspace_stream_update(s4, target_stream),
                     ev |-> <<Ev("stream_update", 0)>>]

\* paint, after the chain walk: blank while inhibited, swap. [s, ev]; the
\* swap is recorded with output_inhibit as it is then
paint_swap(s) ==
    [s |-> swap_buffers(s),
     ev |-> (IF s.output_inhibit # 0 THEN <<Ev("blank", 0)>> ELSE <<>>)
                \o <<EvA("swap", 0, s.output_inhibit)>>]

\* render_manager::post_paint, up to the post effects
post_paint_begin(s) == cleanup_post_hooks(s)

\* post_paint re-scheduling whatever constant_redraw is
post_paint_end_always(s) == schedule_redraw(s)

\* render_manager::post_paint, after the post effects
post_paint_end(s) == IF s.constant_redraw # 0 THEN schedule_redraw(s) ELSE s

\* -------------------------------------------- calls made from inside hooks
Op(name, a, ty) == [op |-> name, a |-> a, t |-> ty]
NoOp == Op("none", 0, "pre")
EffectOps ==
    {Op(n, h, ty) : n \in {"add_effect", "rem_effect"}, h \in Hooks, ty \in Phases}
PostOps == {Op(n, h, "pre") : n \in {"add_post", "rem_post"}, h \in Hooks}
SchedOps ==
    {Op(n, b, "pre") : n \in {"auto_redraw", "add_inhibit"}, b \in {0, 1}}
        \cup {Op(n, 0, "pre") : n \in {"schedule_redraw", "set_renderer",
                                      "reset_renderer", "damage"}}

\* the model's caps: lists and counters stay within the bounds
OpAllowed(s, o) ==
    CASE o.op = "add_effect" -> Len(s.effects[o.t]) < MaxEffects
      [] o.op = "add_post" -> Len(s.post_effects) < MaxPost
      [] o.op = "auto_redraw" -> o.a = 0 \/ s.constant_redraw < MaxCount
      [] o.op = "add_inhibit" ->
            IF o.a = 1 THEN s.output_inhibit < MaxCount
            ELSE s.output_inhibit > -MaxCount
      [] OTHER -> TRUE

ApplyOp(s, o) ==
    CASE o.op = "add_effect" -> add_effect(s, o.a, o.t)
      [] o.op = "rem_effect" -> rem_effect(s, o.a, o.t)
      [] o.op = "add_post" -> add_post(s, o.a)
      [] o.op = "rem_post" -> rem_post(s, o.a)
      [] o.op = "auto_redraw" -> auto_redraw(s, o.a = 1)
      [] o.op = "add_inhibit" -> add_inhibit(s, o.a = 1)
      [] o.op = "schedule_redraw" -> schedule_redraw(s)
      [] o.op = "set_renderer" -> set_renderer(s)
      [] o.op = "reset_renderer" -> reset_renderer(s)
      [] o.op = "damage" -> damage(s, NullRegion)
      [] OTHER -> s

\* ------------------------------------------------------------------ Init
\* render_manager::render_manager: zero default buffer, whole-output damage,
\* the stream grid, one redraw idle queued
Init ==
    /\ Holds(schedule_redraw(od_add_full(
           [constant_redraw |-> 0, output_inhibit |-> 0,
            idle_redraw_source |-> FALSE, idle_damage_source |-> FALSE,
            renderer |-> FALSE, effects |-> [ty \in Phases |-> <<>>],
            post_effects |-> <<>>, default_buffer |-> ZeroBuffer,
            output_streams |-> [w \in Workspaces |->
                                   [running |-> FALSE, buffer |-> ZeroBuffer]],
            current_ws_stream |-> NULL, frame_damage |-> {},
            od_frame_damage |-> {}, dm_damage |-> {}, frame_pending |-> FALSE,
            idle_queue |-> <<>>, current_ws |-> <<0, 0>>, destroyed |-> FALSE,
            views |-> <<>>,
            gl_bound |-> FALSE, gl_log |-> <<>>])))
    /\ pc = "idle"
    /\ active_effects = <<>>
    /\ idx = 1
    /\ walk_end = 0
    /\ last_buffer = 0
    /\ trace = <<>>
    /\ last_op = NoOp

\* --------------------------------------------------- calls from the loop
\* A public operation called between handlers (pc = "idle"), its arguments
\* drawn from Ops.
Call(o) ==
    /\ pc = "idle" /\ OpAllowed(St, o)
    /\ Commit(ApplyOp(St, o))
    /\ last_op' = o
    /\ UNCHANGED pvars

call_add_effect(Ops) == \E o \in Ops : o.op = "add_effect" /\ Call(o)
call_rem_effect(Ops) == \E o \in Ops : o.op = "rem_effect" /\ Call(o)
call_add_post(Ops) == \E o \in Ops : o.op = "add_post" /\ Call(o)
call_rem_post(Ops) == \E o \in Ops : o.op = "rem_post" /\ Call(o)
call_auto_redraw == \E o \in SchedOps : o.op = "auto_redraw" /\ Call(o)
call_add_inhibit == \E o \in SchedOps : o.op = "add_inhibit" /\ Call(o)
call_schedule_redraw == \E o \in SchedOps : o.op = "schedule_redraw" /\ Call(o)
call_set_renderer == \E o \in SchedOps : o.op = "set_renderer" /\ Call(o)
call_reset_renderer == \E o \in SchedOps : o.op = "reset_renderer" /\ Call(o)

\* damage(box) and damage(region) with the boxes a client damages:
\* one pixel of the output, one pixel of the workspace to its right
DamageBoxes == {Rect(0, 0, 1, 1), Rect(OutW, 0, 1, 1)}
call_damage ==
    /\ pc = "idle"
    /\ \/ \E R \in DamageBoxes : Commit(damage_box(St, R))
       \/ \E R \in DamageBoxes : Commit(damage(St, Region(R)))
       \/ Commit(damage(St, NullRegion))
    /\ last_op' = Op("damage", 0, "pre")
    /\ UNCHANGED pvars

\* damage(box) with boxes off the output: the last pixel of the workspace to
\* the left, the first pixel two workspaces to the right
OutsideBoxes == {Rect(-1, 0, 1, 1), Rect(2 * OutW, 0, 1, 1)}
call_damage_outside ==
    /\ pc = "idle"
    /\ \E R \in OutsideBoxes : Commit(damage_box(St, R))
    /\ last_op' = Op("damage", 0, "pre")
    /\ UNCHANGED pvars

\* the event loop dispatches the oldest idle callback
dispatch_redraw_idle ==
    /\ pc = "idle" /\ idle_queue # <<>> /\ Head(idle_queue) = "redraw"
    /\ Commit(redraw_idle_cb([St EXCEPT !.idle_queue = Tail(@)]))
    /\ last_op' = NoOp
    /\ UNCHANGED pvars
dispatch_damage_idle ==
    /\ pc = "idle" /\ idle_queue # <<>> /\ Head(idle_queue) = "damage"
    /\ Commit(damage_idle_cb([St EXCEPT !.idle_queue = Tail(@)]))
    /\ last_op' = NoOp
    /\ UNCHANGED pvars

\* the workspace manager changes the current workspace
set_workspace ==
    /\ pc = "idle"
    /\ \E w \in Workspaces \ {current_ws} : Commit([St EXCEPT !.current_ws = w])
    /\ last_op' = NoOp
    /\ UNCHANGED pvars

\* the surfaces the scene graph may hold: opaque and translucent ones over
\* the left pixel or the whole output, one opaque in its left pixel only, an
\* unmapped one, and a snapshotted view
SurfaceKinds ==
    {[kind |-> "surface", mapped |-> TRUE, box |-> b, alpha |-> a,
      opaque_region |-> b] :
        b \in {Rect(0, 0, 1, 1), OutputRect}, a \in {OpaqueAlpha - 1, OpaqueAlpha}}
    \cup {[kind |-> "surface", mapped |-> TRUE, box |-> OutputRect,
           alpha |-> OpaqueAlpha, opaque_region |-> Rect(0, 0, 1, 1)],
          [kind |-> "surface", mapped |-> FALSE, box |-> OutputRect,
           alpha |-> OpaqueAlpha, opaque_region |-> OutputRect],
          [kind |-> "snapshot", mapped |-> TRUE, box |-> OutputRect,
           alpha |-> OpaqueAlpha, opaque_region |-> OutputRect]}

\* a view comes up in front of the others, or the front view goes away
SceneChanges(vs) ==
    (IF Len(vs) < MaxViews THEN {<<v>> \o vs : v \in SurfaceKinds} ELSE {})
        \cup (IF vs # <<>> THEN {Tail(vs)} ELSE {})

\* the scene graph changes: get_views_on_workspace returns another list
set_views ==
    /\ pc = "idle"
    /\ \E vs \in SceneChanges(views) : Commit([St EXCEPT !.views = vs])
    /\ last_op' = NoOp
    /\ UNCHANGED pvars

\* the output is destroyed
output_destroy ==
    /\ pc = "idle" /\ ~destroyed
    /\ Commit([St EXCEPT !.destroyed = TRUE])
    /\ last_op' = NoOp
    /\ UNCHANGED pvars

\* ------------------------------------------------------- paint, by steps
\* frame_cb -> paint: cleanup, clear frame damage, snapshot the pre effects
frame_cb ==
    /\ pc = "idle" /\ frame_pending
    /\ LET s0 == [St EXCEPT !.frame_pending = FALSE]
           s == paint_begin(s0)
       IN /\ Commit(s)
          /\ active_effects' = s.effects["pre"]
          /\ trace' = <<Ev("cleanup", Removed(s0, s))>>
    /\ pc' = "pre" /\ idx' = 1
    /\ last_op' = NoOp
    /\ UNCHANGED <<walk_end, last_buffer>>

\* run_effects: one hook of the phase runs; it may call back into the manager
run_effect_hook(Ops) ==
    /\ pc \in Phases
    /\ LET rest == run_effects_rest(effects[pc], active_effects, idx)
       IN /\ rest # <<>>
          /\ trace' = Append(trace, Ev(pc, Head(rest)))
    /\ \E o \in Ops : OpAllowed(St, o) /\ Commit(ApplyOp(St, o)) /\ last_op' = o
    /\ idx' = idx + 1
    /\ UNCHANGED <<pc, active_effects, walk_end, last_buffer>>

\* paint: make_current and what follows up to the next hook
paint_make_current ==
    /\ pc = "pre"
    /\ run_effects_rest(effects[pc], active_effects, idx) = <<>>
    /\ \E ok \in BOOLEAN, ext \in BOOLEAN, aged \in BOOLEAN :
         LET s1 == make_current(St, ok, aged)
             needs_swap == wlr_needs_swap(wlr_make_current_damage(St, aged), ext)
             branch == paint_branch(s1, ok, needs_swap)
             mc == IF ok
                   THEN EvA("make_current", IF needs_swap THEN 1 ELSE 0,
                            s1.constant_redraw)
                   ELSE Ev("make_current_failed", 0)
         IN CASE branch = "abort" ->
                   /\ Commit(s1)
                   /\ trace' = Append(trace, mc)
                   /\ pc' = "paint_done"
                   /\ UNCHANGED <<active_effects, idx>>
              [] branch = "post_only" ->
                   LET s2 == post_paint_begin(s1)
                   IN /\ Commit(s2)
                      /\ trace' = trace \o <<mc, Ev("cleanup", Removed(s1, s2))>>
                      /\ pc' = "post" /\ idx' = 1
                      /\ active_effects' = s2.effects["post"]
              [] OTHER ->
                   LET r == paint_scene(s1)
                   IN /\ Commit(r.s)
                      /\ trace' = Append(trace, mc) \o r.ev
                      /\ pc' = "overlay" /\ idx' = 1
                      /\ active_effects' = r.s.effects["overlay"]
    /\ last_op' = NoOp
    /\ UNCHANGED <<walk_end, last_buffer>>

\* paint: software cursors, then the chain walk starts or the frame is swapped
paint_cursors ==
    /\ pc = "overlay"
    /\ run_effects_rest(effects[pc], active_effects, idx) = <<>>
    /\ IF post_effects # <<>>
       THEN /\ Commit(St)
            /\ trace' = Append(trace, Ev("cursors", 0))
            /\ pc' = "chain" /\ idx' = 1 /\ walk_end' = Len(post_effects)
            /\ last_buffer' = 0
            /\ UNCHANGED active_effects
       ELSE LET r == paint_swap(St)
                s2 == post_paint_begin(r.s)
            IN /\ Commit(s2)
               /\ trace' = Append(trace, Ev("cursors", 0)) \o r.ev
                               \o <<Ev("cleanup", Removed(r.s, s2))>>
               /\ pc' = "post" /\ idx' = 1
               /\ active_effects' = s2.effects["post"]
               /\ UNCHANGED <<walk_end, last_buffer>>
    /\ last_op' = NoOp

\* the buffer paint's last_buffer points at: 0 is &default_buffer, else the
\* buffer of the entry at that address
BufferAt(s, ref) ==
    IF ref = 0 THEN s.default_buffer
    ELSE LET at == SelectSeq(s.post_effects, LAMBDA e : e.id = ref)
         IN at[1].buffer

\* paint: one pass of the chain walk. The loop's end iterator was taken when
\* the walk began; a hook that appends to the vector may move its storage,
\* after which the walk reads freed memory: it goes on over the stale
\* entries or the process dies.
chain_pass(Ops) ==
    /\ pc = "chain" /\ idx <= walk_end
    /\ LET post == post_effects[idx]
           s1 == render_begin(St)
           s2 == LogGL(s1, "allocate", post.buffer)
           s3 == render_end([s2 EXCEPT !.post_effects[idx].buffer =
                                 fb_allocate(@, FreshName(s2))])
       IN /\ \E o \in Ops :
               /\ OpAllowed(s3, o)
               /\ Commit(ApplyOp(s3, o))
               /\ last_op' = o
               /\ pc' \in (IF o.op = "add_post" THEN {"chain", "crashed"}
                           ELSE {"chain"})
          /\ trace' = Append(trace, Ev("pass", post.hook))
          /\ last_buffer' = post.id
    /\ idx' = idx + 1
    /\ UNCHANGED <<active_effects, walk_end>>

\* paint: the walk is over; assert(last_buffer->fb == 0 && last_buffer->tex == 0),
\* then blank-if-inhibited, swap_buffers and post_paint up to the post effects
chain_end ==
    /\ pc = "chain" /\ idx > walk_end
    /\ IF ~IsZero(BufferAt(St, last_buffer))
       THEN /\ Commit(St)
            /\ pc' = "assert_failed"
            /\ UNCHANGED <<active_effects, idx, walk_end, last_buffer, trace>>
       ELSE LET r == paint_swap(St)
                s2 == post_paint_begin(r.s)
            IN /\ Commit(s2)
               /\ trace' = trace \o r.ev \o <<Ev("cleanup", Removed(r.s, s2))>>
               /\ pc' = "post" /\ idx' = 1
               /\ active_effects' = s2.effects["post"]
               /\ UNCHANGED <<walk_end, last_buffer>>
    /\ last_op' = NoOp

\* post_paint: the post effects ran; re-schedule under constant redraw and
\* send frame_done to the surfaces
paint_post_done ==
    /\ pc = "post"
    /\ run_effects_rest(effects[pc], active_effects, idx) = <<>>
    /\ Commit(post_paint_end(St))
    /\ trace' = Append(trace, Ev("frame_done", 0))
    /\ pc' = "paint_done"
    /\ last_op' = NoOp
    /\ UNCHANGED <<active_effects, idx, walk_end, last_buffer>>

\* paint returns to the event loop
paint_return ==
    /\ pc = "paint_done"
    /\ Commit(St)
    /\ pc' = "idle" /\ active_effects' = <<>> /\ idx' = 1 /\ walk_end' = 0
    /\ last_buffer' = 0 /\ trace' = <<>>
    /\ last_op' = NoOp

\* ------------------------------------------------------- specifications
HookOps == {NoOp} \cup EffectOps \cup PostOps \cup SchedOps

\* Everything: every public operation from the loop and from inside hooks.
Next ==
    \/ call_add_effect(HookOps)
    \/ call_rem_effect(HookOps)
    \/ call_add_post(HookOps)
    \/ call_rem_post(HookOps)
    \/ call_auto_redraw
    \/ call_add_inhibit
    \/ call_schedule_redraw
    \/ call_set_renderer
    \/ call_reset_renderer
    \/ call_damage
    \/ call_damage_outside
    \/ dispatch_redraw_idle
    \/ dispatch_damage_idle
    \/ set_workspace
    \/ set_views
    \/ output_destroy
    \/ frame_cb
    \/ run_effect_hook(HookOps)
    \/ paint_make_current
    \/ paint_cursors
    \/ chain_pass(HookOps)
    \/ chain_end
    \/ paint_post_done
    \/ paint_return

Spec == Init /\ [][Next]_vars

\* The frame scheduler: counters, idle sources, the renderer switch, and a
\* post-phase hook that calls the scheduler from inside paint.
SchedHookOps == {NoOp} \cup SchedOps
SchedRegOps == {Op("add_effect", 1, "post"), Op("rem_effect", 1, "post")}
NextSched ==
    \/ call_auto_redraw
    \/ call_add_inhibit
    \/ call_schedule_redraw
    \/ call_set_renderer
    \/ call_reset_renderer
    \/ call_add_effect(SchedRegOps)
    \/ call_rem_effect(SchedRegOps)
    \/ dispatch_redraw_idle
    \/ dispatch_damage_idle
    \/ frame_cb
    \/ run_effect_hook(SchedHookOps)
    \/ paint_make_current
    \/ paint_cursors
    \/ paint_post_done
    \/ paint_return

SpecSched == Init /\ [][NextSched]_vars

\* The post-effect chain: registration and removal from the loop and from
\* inside post-effect hooks, and the frames that walk the chain.
ChainHookOps == {NoOp} \cup PostOps
NextChain ==
    \/ call_add_post(PostOps)
    \/ call_rem_post(PostOps)
    \/ frame_cb
    \/ paint_make_current
    \/ paint_cursors
    \/ chain_pass(ChainHookOps)
    \/ chain_end
    \/ paint_post_done
    \/ paint_return

SpecChain == Init /\ [][NextChain]_vars

\* Whole frames: effects of every phase, a post-effect chain with removals
\* pending, the custom renderer and constant redraw; the hooks only draw.
FrameOps ==
    {Op("add_effect", h, "pre") : h \in Hooks}
        \cup {Op("add_effect", 1, ty) : ty \in {"overlay", "post"}}
        \cup {Op(n, 1, "pre") : n \in {"add_post", "rem_post"}}
NextFrame ==
    \/ call_add_effect(FrameOps)
    \/ call_add_post(FrameOps)
    \/ call_rem_post(FrameOps)
    \/ call_set_renderer
    \/ call_auto_redraw
    \/ frame_cb
    \/ run_effect_hook({NoOp})
    \/ paint_make_current
    \/ paint_cursors
    \/ chain_pass({NoOp})
    \/ chain_end
    \/ paint_post_done
    \/ paint_return

SpecFrame == Init /\ [][NextFrame]_vars

\* The effect registry: hooks that add and remove effects of the phase that
\* is running, and removals of hooks that were never registered.
SamePhaseOps == {NoOp} \cup {o \in EffectOps : o.t = pc}
NextEffects ==
    \/ call_add_effect(EffectOps)
    \/ call_rem_effect(EffectOps)
    \/ call_rem_post(PostOps)
    \/ frame_cb
    \/ run_effect_hook(SamePhaseOps)
    \/ paint_make_current
    \/ paint_cursors
    \/ paint_post_done
    \/ paint_return

SpecEffects == Init /\ [][NextEffects]_vars

\* Workspace streams and damage: clients damage boxes inside and outside the
\* output, the current workspace changes, the renderer comes and goes.
NextStream ==
    \/ call_damage
    \/ set_workspace
    \/ call_set_renderer
    \/ call_reset_renderer
    \/ dispatch_redraw_idle
    \/ dispatch_damage_idle
    \/ frame_cb
    \/ paint_make_current
    \/ paint_cursors
    \/ paint_post_done
    \/ paint_return

SpecStream == Init /\ [][NextStream]_vars

\* The scene of one workspace: the surfaces change, clients damage the left
\* pixel or the whole output, and every frame draws the stream.
NextScene ==
    \/ set_views
    \/ call_damage
    \/ frame_cb
    \/ paint_make_current
    \/ paint_cursors
    \/ paint_post_done
    \/ paint_return

SpecScene == Init /\ [][NextScene]_vars

\* Workspace damage: damage on and around the output, workspace changes, and
\* frames with and without the custom renderer (which keeps the damage that
\* lies off the output in frame_damage).
NextWsDamage ==
    \/ call_damage
    \/ call_damage_outside
    \/ set_workspace
    \/ call_set_renderer
    \/ frame_cb
    \/ paint_make_current
    \/ paint_cursors
    \/ paint_post_done
    \/ paint_return

SpecWsDamage == Init /\ [][NextWsDamage]_vars

\* Frames under constant redraw, with the scheduling the event loop and the
\* display give: a queued idle callback is run, a requested frame produces a
\* frame event, and a paint that began runs to its return. Calls into the
\* manager (auto_redraw, damage) come when the plugins make them, if ever.
NextRedraw ==
    \/ call_auto_redraw
    \/ call_damage
    \/ dispatch_redraw_idle
    \/ frame_cb
    \/ paint_make_current
    \/ paint_cursors
    \/ paint_post_done
    \/ paint_return

FairRedraw ==
    /\ WF_vars(dispatch_redraw_idle)
    /\ WF_vars(frame_cb)
    /\ WF_vars(paint_make_current)
    /\ WF_vars(paint_cursors)
    /\ WF_vars(paint_post_done)
    /\ WF_vars(paint_return)

SpecRedraw == Init /\ [][NextRedraw]_vars /\ FairRedraw

\* ------------------------------------------------------------- claims
Count(seq, x) == Cardinality({i \in 1..Len(seq) : seq[i] = x})

\* C2: constant_redraw is never negative, and auto_redraw(false) called at 0
\* leaves it at 0.
C2_ConstantRedrawNonNegative ==
    /\ [](constant_redraw >= 0)
    /\ [][(last_op' = Op("auto_redraw", 0, "pre") /\ constant_redraw = 0)
              => constant_redraw' = 0]_vars

\* an unmatched auto_redraw(false): the clamp returns before schedule_redraw,
\* so no redraw idle is held afterwards
C2_Witness ==
    /\ last_op = Op("auto_redraw", 0, "pre")
    /\ constant_redraw = 0
    /\ ~idle_redraw_source

\* C3: output_inhibit is never negative, whatever add_inhibit calls are made.
C3_OutputInhibitNonNegative == output_inhibit >= 0

\* C4: at most one redraw idle and one damage idle are queued, and each
\* source field is non-NULL exactly while its callback is queued.
C4_IdleSourceExclusive ==
    /\ Count(idle_queue, "redraw") <= 1
    /\ Count(idle_queue, "damage") <= 1
    /\ idle_redraw_source <=> Count(idle_queue, "redraw") = 1
    /\ idle_damage_source <=> Count(idle_queue, "damage") = 1

\* schedule_redraw called while a redraw idle is queued already, with the
\* damage idle queued too
C4_Witness ==
    /\ last_op.op = "schedule_redraw"
    /\ idle_queue = <<"redraw", "damage">>
    /\ idle_redraw_source /\ idle_damage_source

\* C1: a non-empty chain ends in an entry whose buffer ids are (0, 0), and the
\* assertion that closes paint's chain walk never fails.
C1_PostChainTerminal ==
    /\ post_effects # <<>> => IsZero(post_effects[Len(post_effects)].buffer)
    /\ pc # "assert_failed"

\* steps that run cleanup_post_hooks: paint's first and post_paint's first
CleanupStep == (pc = "idle" /\ pc' = "pre") \/ (pc # "post" /\ pc' = "post")
Ids(chain) == [i \in 1..Len(chain) |-> chain[i].id]
Unmarked(chain) == SelectSeq(chain, LAMBDA e : ~e.to_remove)

\* rem_post(h) only marks: same entries in the same order, and only entries
\* with hook h change their flag
RemPostOnlyMarks ==
    last_op'.op = "rem_post" =>
        /\ Ids(post_effects') = Ids(post_effects)
        /\ \A i \in 1..Len(post_effects) :
              /\ post_effects'[i].hook = post_effects[i].hook
              /\ post_effects'[i].to_remove =
                    (post_effects[i].to_remove \/ post_effects[i].hook = last_op'.a)

\* entries leave the chain in cleanup_post_hooks only
ShrinksOnlyInCleanup == Len(post_effects') < Len(post_effects) => CleanupStep

\* C9 as stated: rem_post only marks, the chain shrinks in cleanup_post_hooks
\* only, and a cleanup leaves no entry whose hook was marked for removal.
C9_DeferredRemoval ==
    [][/\ RemPostOnlyMarks
       /\ ShrinksOnlyInCleanup
       /\ CleanupStep =>
             \A i \in 1..Len(post_effects), j \in 1..Len(post_effects') :
                 post_effects[i].to_remove =>
                     post_effects'[j].hook # post_effects[i].hook]_vars

\* C9 amended: rem_post only marks, the chain shrinks in cleanup_post_hooks
\* only, and a cleanup removes exactly the marked entries: the entries that
\* were in the chain when rem_post(h) ran are gone, the others stay in order.
C9_DeferredRemovalAmended ==
    [][/\ RemPostOnlyMarks
       /\ ShrinksOnlyInCleanup
       /\ CleanupStep => Ids(post_effects') = Ids(Unmarked(post_effects))]_vars

\* a paint began with a cleanup that removed a marked entry and kept another
C9_Witness ==
    /\ pc = "pre"
    /\ trace = <<Ev("cleanup", 1)>>
    /\ post_effects # <<>>

\* ----------------------------------------------- the stages of one paint
Stages(tr) == SelectSeq(tr, LAMBDA e : e.stage # "cleanup")
StageEvents(tr, stage) == SelectSeq(tr, LAMBDA e : e.stage = stage)
CountStage(tr, stage) == Len(StageEvents(tr, stage))
HooksOf(tr, stage) ==
    [i \in 1..CountStage(tr, stage) |-> StageEvents(tr, stage)[i].hook]
IsPrefix(a, b) == Len(a) <= Len(b) /\ a = SubSeq(b, 1, Len(a))
HookStages == {"pre", "overlay", "pass", "post"}
SceneStages == {"renderer", "stream_start", "stream_update"}
Rank(stage) ==
    CASE stage = "pre" -> 1
      [] stage \in {"make_current", "make_current_failed"} -> 2
      [] stage \in SceneStages -> 3
      [] stage = "overlay" -> 4
      [] stage = "cursors" -> 5
      [] stage = "pass" -> 6
      [] stage = "blank" -> 7
      [] stage = "swap" -> 8
      [] stage = "post" -> 9
      [] stage = "frame_done" -> 10
      [] OTHER -> 0
ChainHooks == [i \in 1..Len(post_effects) |-> post_effects[i].hook]

EmptyDamageFrame(tr) ==
    \E i \in 1..Len(tr) :
        tr[i].stage = "make_current" /\ tr[i].hook = 0 /\ tr[i].arg = 0

\* C6: a paint whose make_current reports nothing to swap while
\* constant_redraw is 0 runs no scene stage, no overlay hook, no cursors, no
\* pass and no swap, and goes through the post phase once: every post hook,
\* then frame_done.
C6_EmptyDamageFrame ==
    EmptyDamageFrame(trace) =>
        /\ \A i \in 1..Len(trace) :
              trace[i].stage \notin
                  SceneStages \cup {"overlay", "cursors", "pass", "blank", "swap"}
        /\ pc \in {"post", "paint_done"}
        /\ IsPrefix(HooksOf(trace, "post"), effects["post"])
        /\ CountStage(trace, "frame_done") = (IF pc = "paint_done" THEN 1 ELSE 0)
        /\ pc = "paint_done" => HooksOf(trace, "post") = effects["post"]

\* such a paint is over, with a renderer, an overlay hook and a chain that it
\* left alone and a post hook that it ran
C6_Witness ==
    /\ pc = "paint_done" /\ EmptyDamageFrame(trace)
    /\ renderer /\ effects["overlay"] # <<>> /\ post_effects # <<>>
    /\ HooksOf(trace, "post") = <<1>>

MakeCurrentFailed(tr) == CountStage(tr, "make_current_failed") > 0

\* a paint whose make_current failed ran the pre hooks and nothing else
C7_NoLaterStage ==
    MakeCurrentFailed(trace) =>
        /\ pc = "paint_done"
        /\ \A i \in 1..Len(trace) :
              trace[i].stage \in {"cleanup", "pre", "make_current_failed"}

\* the step in which make_current fails changes none of these
C7_AbortKeeps ==
    (~MakeCurrentFailed(trace) /\ MakeCurrentFailed(trace')) =>
        UNCHANGED <<constant_redraw, output_inhibit, effects, post_effects,
                    current_ws_stream>>

\* every paint, the one after a failed one included, starts with the pre hooks
C7_Retry ==
    (pc = "idle" /\ pc' # "idle") =>
        /\ pc' = "pre" /\ idx' = 1 /\ active_effects' = effects'["pre"]
        /\ Stages(trace') = <<>>

\* C7 as stated: a paint whose make_current fails runs no stage after the pre
\* hooks and leaves counters, effect lists, chain and current stream as the
\* frame event found them; the next paint starts from the pre hooks again.
C7_MakeCurrentFailureAborts ==
    /\ [](C7_NoLaterStage /\ (MakeCurrentFailed(trace) => trace[1].hook = 0))
    /\ [][C7_AbortKeeps /\ C7_Retry]_vars

\* C7 amended: a paint whose make_current fails runs no stage after the pre
\* hooks, and from the failure on it changes no counter, effect list, chain
\* entry or current stream (the removals that cleanup_post_hooks applied when
\* the paint began stay applied); the next paint starts from the pre hooks.
C7_MakeCurrentFailureAbortsAmended ==
    /\ []C7_NoLaterStage
    /\ [][C7_AbortKeeps /\ C7_Retry]_vars

\* make_current failed after the pre hooks ran, under constant redraw and
\* with a chain registered
C7_Witness ==
    /\ pc = "paint_done" /\ MakeCurrentFailed(trace)
    /\ CountStage(trace, "pre") = 2
    /\ constant_redraw > 0 /\ post_effects # <<>>

\* C8: rem_effect of a hook that is not in the phase's list and rem_post of a
\* hook that is not in the chain change neither the effect lists, nor the
\* chain, nor the accumulated frame damage, nor the pending frame request.
C8_RemoveUnregisteredNoOp ==
    [][(\/ /\ last_op'.op = "rem_effect"
           /\ Count(effects[last_op'.t], last_op'.a) = 0
        \/ /\ last_op'.op = "rem_post"
           /\ Count(ChainHooks, last_op'.a) = 0)
          => UNCHANGED <<effects, post_effects, od_frame_damage, dm_damage,
                         frame_pending>>]_vars

\* C10: the hooks a phase invokes are the list as it was when the phase
\* began, in order and all of them, whatever the hooks add to or remove from
\* the list meanwhile; the next run of the phase starts from the changed list.
C10_EffectSnapshot ==
    /\ [](pc \in Phases =>
             /\ CountStage(trace, pc) = idx - 1
             /\ IsPrefix(HooksOf(trace, pc), active_effects))
    /\ [][/\ (pc' \in Phases /\ pc' # pc) => active_effects' = effects'[pc']
          /\ (pc \in Phases /\ pc' = pc) => active_effects' = active_effects
          /\ (pc \in Phases /\ pc' # pc) => HooksOf(trace, pc) = active_effects
         ]_vars

\* a phase ran every hook of its snapshot although its hooks changed the list
C10_Witness ==
    /\ pc \in Phases
    /\ Len(active_effects) = 2
    /\ HooksOf(trace, pc) = active_effects
    /\ effects[pc] # active_effects

\* the step that ends post_paint
PostPaintEnds == pc = "post" /\ pc' = "paint_done"

\* C11: under constant redraw every post_paint ends with the redraw idle
\* queued; the auto_redraw(false) that brings the counter to 0 leaves one
\* redraw idle at most, and while the counter stays 0 no post_paint queues a
\* redraw: only an explicit schedule_redraw does.
C11_ConstantRedraw ==
    [][/\ (PostPaintEnds /\ constant_redraw' > 0) =>
              idle_redraw_source' /\ Count(idle_queue', "redraw") = 1
       /\ (constant_redraw > 0 /\ constant_redraw' = 0) =>
              /\ last_op' = Op("auto_redraw", 0, "pre")
              /\ Count(idle_queue', "redraw") = 1
       /\ (PostPaintEnds /\ constant_redraw' = 0) =>
              UNCHANGED <<idle_queue, idle_redraw_source>>
       /\ (constant_redraw = 0 /\ constant_redraw' = 0
             /\ Count(idle_queue', "redraw") > Count(idle_queue, "redraw")) =>
              last_op'.op = "schedule_redraw"
      ]_vars

\* a frame drawn on account of constant redraw alone (nothing to swap) has
\* ended with the redraw idle queued
C11_Witness ==
    /\ pc = "paint_done" /\ CountStage(trace, "frame_done") = 1
    /\ \E i \in 1..Len(trace) :
          trace[i].stage = "make_current" /\ trace[i].hook = 0
    /\ CountStage(trace, "swap") = 1
    /\ constant_redraw > 0
    /\ idle_queue = <<"redraw">>

\* C12: a paint that swaps clears the display to black, right before the
\* swap, exactly when output_inhibit > 0 then; with no inhibit outstanding it
\* never blanks.
C12_InhibitBlanking ==
    \A i \in 1..Len(trace) :
        /\ trace[i].stage = "swap" =>
              ((i > 1 /\ trace[i - 1].stage = "blank") <=> trace[i].arg > 0)
        /\ trace[i].stage = "blank" =>
              (i < Len(trace) /\ trace[i + 1].stage = "swap")

\* what a step emitted
Emitted(name) == \E i \in 1..Len(gl_log') : gl_log'[i].op = name

\* the add_inhibit(false) that releases the last outstanding inhibit
ReleasesLastInhibit == last_op' = Op("add_inhibit", 0, "pre") /\ output_inhibit = 1

\* C13: add_inhibit damages the whole output and emits "start-rendering" on
\* the add_inhibit(false) that releases the last outstanding inhibit, and on
\* no other call: never on add_inhibit(true), never while inhibits remain.
C13_InhibitRelease ==
    [][last_op'.op = "add_inhibit" =>
          IF ReleasesLastInhibit
          THEN /\ Emitted("start-rendering")
               /\ OutputRect \subseteq od_frame_damage'
               /\ OutputRect \subseteq dm_damage'
               /\ frame_pending'
          ELSE /\ ~Emitted("start-rendering")
               /\ UNCHANGED <<od_frame_damage, dm_damage>>]_vars

\* C14: at most one stream runs and it is current_ws_stream; when paint moves
\* current_ws_stream from S to T, S is stopped, T is started, and T's whole
\* workspace rectangle is in the frame damage before T's first update, which
\* therefore runs in full.
C14_SingleCurrentStream ==
    /\ [](\A w \in Workspaces : output_streams[w].running => current_ws_stream = w)
    /\ [][current_ws_stream' # current_ws_stream =>
             /\ current_ws_stream # NULL =>
                   ~output_streams'[current_ws_stream].running
             /\ current_ws_stream' = current_ws'
             /\ output_streams'[current_ws_stream'].running
             /\ OutputRect \subseteq frame_damage'
             /\ Emitted("workspace-stream-pre")
             /\ Emitted("workspace-stream-post")]_vars

\* after a workspace switch the paint stopped the stream of (0, 0) and
\* started the stream of (1, 0)
C14_Witness ==
    /\ StageEvents(trace, "stream_start") = <<EvA("stream_start", 0, 1)>>
    /\ current_ws_stream = <<1, 0>>
    /\ ~output_streams[<<0, 0>>].running
    /\ output_streams[<<1, 0>>].running

\* the step in which make_current succeeds
MakeCurrentSucceeds ==
    CountStage(trace', "make_current") > CountStage(trace, "make_current")

\* C15: right after a successful make_current the accumulator's frame damage
\* has nothing inside the output rectangle; what it held outside is retained.
C15_DamageSubtraction ==
    [][MakeCurrentSucceeds =>
          /\ od_frame_damage' \cap OutputRect = {}
          /\ od_frame_damage' = od_frame_damage \ OutputRect]_vars

\* make_current succeeded after damage inside and outside the output: the
\* pixel right of the output is all the accumulator retains
C15_Witness ==
    /\ pc = "overlay" /\ CountStage(trace, "make_current") = 1
    /\ od_frame_damage = Rect(OutW, 0, 1, 1)
    /\ OutputRect \subseteq dm_damage

\* C16: release() is never run on a buffer whose ids are the display's
\* (fb == 0, tex == 0); removing the chain's terminal entry does not release
\* that entry's buffer.
C16_DisplaySlotNeverFreed ==
    \A i \in 1..Len(gl_log) :
        gl_log[i].op = "release" => ~(gl_log[i].fb = 0 /\ gl_log[i].tex = 0)

\* C17: every allocate() and release() on the default buffer, a stream buffer
\* or a post-effect buffer runs between a render_begin and its render_end.
C17_BufferMutationBound ==
    \A i \in 1..Len(gl_log) :
        gl_log[i].op \in {"allocate", "release"} => gl_log[i].bound

\* C18: a post-effect hook that calls add_post during the chain walk does not
\* disturb the walk: it does not crash, it invokes the entries the chain held
\* when the walk began, head to tail, and the last buffer written is the
\* zero-id display buffer.
C18_ChainStableUnderHooks ==
    /\ pc \notin {"crashed", "assert_failed"}
    /\ pc = "chain" =>
          /\ walk_end <= Len(post_effects)
          /\ HooksOf(trace, "pass") = SubSeq(ChainHooks, 1, idx - 1)
          /\ idx > walk_end => IsZero(BufferAt(St, last_buffer))

\* ------------------------------------------- what a stream update drew
StreamUpdated == \E i \in 1..Len(gl_log) : gl_log[i].op = "workspace-stream-pre"
DrawnAt == {i \in 1..Len(gl_log) : gl_log[i].op = "render_fb"}
ClearedAt == {i \in 1..Len(gl_log) : gl_log[i].op = "clear"}
DrawsOf(j) == {i \in DrawnAt : gl_log[i].surface = j}

\* the workspace damage the update started from
UpdateDamage == get_ws_damage(St, current_ws_stream)

\* an opaque surface: mapped, drawn from its own buffer, alpha >= 0.999
IsOpaque(v) == v.kind = "surface" /\ v.mapped /\ v.alpha >= OpaqueAlpha

\* the damage left for the j-th view: the update's damage without the opaque
\* regions of the opaque surfaces in front of it
RemainingFor(j) ==
    UpdateDamage \ UNION {views[k].opaque_region :
                             k \in {k \in 1..(j - 1) : IsOpaque(views[k])}}
ExpectedDamage(j) ==
    IF views[j].kind = "surface" /\ ~views[j].mapped THEN {}
    ELSE views[j].box \cap RemainingFor(j)

\* C19: a stream update draws a surface with its box intersected with the
\* damage that the opaque surfaces in front of it leave, and does not draw a
\* surface for which that is empty; behind an opaque surface that covers all
\* the damage nothing is drawn.
C19_OcclusionCulling ==
    StreamUpdated =>
        /\ \A i \in DrawnAt : gl_log[i].surface \in 1..Len(views)
        /\ \A j \in 1..Len(views) :
              IF ExpectedDamage(j) = {} THEN DrawsOf(j) = {}
              ELSE /\ Cardinality(DrawsOf(j)) = 1
                   /\ \A i \in DrawsOf(j) : gl_log[i].damage = ExpectedDamage(j)

\* A in front, opaque, covering the whole output, B opaque and C translucent
\* behind it, the whole output damaged: the update drew A alone
C19_Witness ==
    /\ StreamUpdated /\ UpdateDamage = OutputRect
    /\ Len(views) = 3
    /\ IsOpaque(views[1]) /\ views[1].opaque_region = OutputRect
    /\ IsOpaque(views[2])
    /\ views[3].kind = "surface" /\ views[3].mapped /\ ~IsOpaque(views[3])
    /\ \A i \in DrawnAt : gl_log[i].surface = 1
    /\ Cardinality(DrawnAt) = 1

\* C20: a stream update draws its records in the reverse of the order it
\* collected them in (back to front), each once and with its own non-empty
\* damage, and all of them after the clear to black.
C20_ReverseDrawOrder ==
    StreamUpdated =>
        /\ Cardinality(ClearedAt) = 1
        /\ \A c \in ClearedAt, i \in DrawnAt : c < i
        /\ \A i, k \in DrawnAt : i < k => gl_log[i].surface > gl_log[k].surface
        /\ \A i \in DrawnAt :
              /\ gl_log[i].damage # {}
              /\ gl_log[i].damage \subseteq views[gl_log[i].surface].box

\* three translucent surfaces A, B, C front to back were drawn C, B, A, the
\* front one with the left pixel only
C20_Witness ==
    /\ StreamUpdated /\ Len(views) = 3
    /\ \E c \in ClearedAt :
          /\ c + 3 <= Len(gl_log)
          /\ \A k \in 1..3 : /\ gl_log[c + k].op = "render_fb"
                             /\ gl_log[c + k].surface = 4 - k
          /\ gl_log[c + 3].damage = Rect(0, 0, 1, 1)
          /\ gl_log[c + 1].damage = OutputRect

\* the pixels of F that lie in the workspace's rectangle, moved into
\* workspace-local coordinates
WsPixels(F, ws, cur) ==
    {<<p[1] + (cur[1] - ws[1]) * OutW, p[2] + (cur[2] - ws[2]) * OutH>> :
        p \in {q \in F :
                 /\ (ws[1] - cur[1]) * OutW <= q[1]
                 /\ q[1] < (ws[1] - cur[1]) * OutW + OutW
                 /\ (ws[2] - cur[2]) * OutH <= q[2]
                 /\ q[2] < (ws[2] - cur[2]) * OutH + OutH}}

\* C21: for every workspace of the grid get_ws_damage returns the pixels of
\* the frame damage that lie in that workspace's rectangle, translated into
\* workspace-local coordinates: all of them within the output size; the frame
\* damage itself stays as it is.
C21_WsDamage ==
    \A ws \in Workspaces :
        /\ get_ws_damage(St, ws) = WsPixels(frame_damage, ws, current_ws)
        /\ get_ws_damage(St, ws) \subseteq OutputRect
        /\ workspace_stream_update(St, ws).frame_damage = frame_damage

\* under the custom renderer the frame damage holds pixels left and right of
\* the output; seen from workspace (1, 0) the left one is the last pixel of
\* workspace (0, 0)
C21_Witness ==
    /\ renderer /\ pc = "overlay"
    /\ current_ws = <<1, 0>>
    /\ {<<-1, 0>>, <<2 * OutW, 0>>} \subseteq frame_damage
    /\ <<OutW - 1, 0>> \in get_ws_damage(St, <<0, 0>>)
    /\ <<OutW - 1, 0>> \notin get_ws_damage(St, <<1, 0>>)

\* C22: after a stream update that did not return early every pixel of the
\* update's workspace damage was cleared to black or lies in the damage of a
\* drawn record of an opaque surface, and the damage of every drawn record
\* lies within the update's workspace damage.
C22_NoStaleDamage ==
    StreamUpdated =>
        /\ \A p \in UpdateDamage :
              \/ \E c \in ClearedAt : p \in gl_log[c].damage
              \/ \E i \in DrawnAt :
                    /\ gl_log[i].surface \in 1..Len(views)
                    /\ IsOpaque(views[gl_log[i].surface])
                    /\ p \in gl_log[i].damage
        /\ \A i \in DrawnAt : gl_log[i].damage \subseteq UpdateDamage

\* the whole output damaged and an opaque surface on the left pixel only: the
\* update cleared the right pixel and drew the surface on the left one
C22_Witness ==
    /\ StreamUpdated /\ UpdateDamage = OutputRect
    /\ \E c \in ClearedAt : gl_log[c].damage = OutputRect \ Rect(0, 0, 1, 1)
    /\ \E i \in DrawnAt :
          /\ IsOpaque(views[gl_log[i].surface])
          /\ gl_log[i].damage = Rect(0, 0, 1, 1)
    /\ \A i \in DrawnAt : IsOpaque(views[gl_log[i].surface])

\* C23: under constant redraw every paint is followed by another paint:
\* whenever a paint ends (swapped, nothing to draw, or aborted at
\* make_current) with constant_redraw > 0, a next paint begins, unless
\* constant_redraw falls to 0 first.
C23_ConstantRedrawLive ==
    (pc = "paint_done" /\ constant_redraw > 0)
        ~> (pc = "pre" \/ constant_redraw = 0)

====
